---- MODULE Spec2Model ----
(***************************************************************************)
(* Client-side authentication session of the admin dashboard.              *)
(*                                                                         *)
(* The repository holds two AuthProvider implementations:                  *)
(*   - the session-only provider (src/src/contexts/AuthContext.tsx):       *)
(*     numeric roles, admin and token held in React state only, identity   *)
(*     fetched by a follow-up GET /admin/me;                                *)
(*   - the persisted provider (src/unnamed/part_002): string roles and     *)
(*     permissions, token and admin mirrored to localStorage, silent       *)
(*     validation of the stored token on mount.                            *)
(* The variable `variant` selects the provider a behaviour runs; it never  *)
(* changes.                                                                *)
(*                                                                         *)
(* Execution is single-threaded and run-to-completion: an action is the    *)
(* synchronous code between two awaits.  React applies the state setters   *)
(* called in one such segment in call order (the last write to a cell      *)
(* wins) and renders once after it, so the post-state of an action is what *)
(* a component can observe.  Handlers never read the React state cells,    *)
(* so stale closures do not change what they write.                        *)
(***************************************************************************)
EXTENDS Integers, Sequences, FiniteSets, TLC

VARIABLES
    variant,      \* "session" | "persisted": which AuthProvider runs
    admin,        \* useState<Admin | null>
    token,        \* useState<string | null> (session-only provider)
    isLoading,    \* useState(true)
    error,        \* useState<string | null>
    localStorage, \* [authToken, adminData]: the two keyed string entries
    calls,        \* login() invocations: slot -> [pc, access_token, loggedOut]
    pcValidate,   \* position of the mount effect: "init" | "awaiting" | "done"
    valToken,     \* the token validateExistingToken read and holds across its await
    logoutCalls,  \* server-side logout requests not yet settled
    accepted,     \* tokens the identity service has accepted (login or validate)
    storageOp,    \* the persistence helper last called, with its arguments or result
    evaluated,    \* the access helper or route guard last evaluated, with its result
    loginForm,    \* state of the Login component and what its submit handler caught
    mgmt,         \* the management views: their running handlers and requests sent
    health        \* state of the HealthChart component and its requests in flight

\* the components that consume the context or stand beside it
components == <<loginForm, mgmt, health>>

\* all of these but the Login component
exceptLoginForm == <<storageOp, evaluated, mgmt, health>>

\* what no AuthProvider handler writes
outside == <<storageOp, evaluated, components>>

vars == <<variant, admin, token, isLoading, error, localStorage,
          calls, pcValidate, valToken, logoutCalls, accepted, outside>>

(***************************************************************************)
(* Bounds                                                                  *)
(***************************************************************************)
MaxLogins == 2
MaxLogoutCalls == 1

Slots == 1..MaxLogins

(***************************************************************************)
(* JavaScript values                                                       *)
(***************************************************************************)
Null == "<null>"
Undefined == "<undefined>"
NullAdmin == [kind |-> "null"]
UndefinedAdmin == [kind |-> "undefined"]

\* !s for a string-or-null value
FalsyString(s) == s \in {Null, Undefined, ""}
\* !a for an object-or-null value
FalsyAdmin(a) == a \in {NullAdmin, UndefinedAdmin}

Tokens == {"tok-A", "tok-B"}

\* Admin of the session-only provider: role 0 = Super Admin, 1 = Admin
NumericAdmins ==
    { [kind |-> "admin", id |-> "1", role |-> 0],
      [kind |-> "admin", id |-> "2", role |-> 1] }

\* Admin of the persisted provider: string role, optional permission list
StringAdmins ==
    { [kind |-> "admin", id |-> "1", role |-> "super_admin",
       hasPermissions |-> TRUE, permissions |-> <<"read:users", "write:users">>],
      [kind |-> "admin", id |-> "2", role |-> "admin",
       hasPermissions |-> FALSE, permissions |-> <<>>] }

\* further admins the identity service may hold: the other super-admin
\* spelling with an empty permission list, and a role that differs from a
\* super-admin spelling in case only
OtherStringAdmins ==
    { [kind |-> "admin", id |-> "3", role |-> "superadmin",
       hasPermissions |-> TRUE, permissions |-> <<>>],
      [kind |-> "admin", id |-> "4", role |-> "Super_Admin",
       hasPermissions |-> TRUE, permissions |-> <<"read:users">>] }

\* the components as mounted: Login.tsx:17-23 (no submit running, nothing
\* caught), the management views (no handler running, no request sent),
\* HealthChart.tsx:107-111
InitialLoginForm == [isSubmitting |-> FALSE, call |-> 0, caught |-> Null]
InitialMgmt == [users |-> [pc |-> "idle", token |-> Null],
                admins |-> [pc |-> "idle", token |-> Null],
                sent |-> 0, last |-> [api |-> "none", token |-> Null]]
InitialHealth == [systemData |-> Null, chartData |-> 0, loading |-> TRUE, error |-> Null,
                  apiConnected |-> FALSE, initial |-> "init", polls |-> 0]

InitComponents ==
    /\ loginForm = InitialLoginForm
    /\ mgmt = InitialMgmt
    /\ health = InitialHealth

\* before any persistence helper was called, before anything was evaluated
NoStorageOp == [op |-> "none", token |-> Null, adminData |-> NullAdmin,
                found |-> [authToken |-> Null, adminData |-> Null]]
NothingEvaluated == [fn |-> "none", arg |-> Null, result |-> Null]

(***************************************************************************)
(* The session cell: the React state of a provider as one record, and the  *)
(* setters as updates of it, applied in the order the code calls them.     *)
(***************************************************************************)
Session == [admin |-> admin, token |-> token, isLoading |-> isLoading, error |-> error]

setAdmin(s, a) == [s EXCEPT !.admin = a]
\* a provider that drops the token write
setToken_dropped(s, t) == s
setToken(s, t) == [s EXCEPT !.token = t]
setIsLoading(s, b) == [s EXCEPT !.isLoading = b]
setError(s, e) == [s EXCEPT !.error = e]

Commit(s) ==
    /\ admin' = s.admin
    /\ token' = s.token
    /\ isLoading' = s.isLoading
    /\ error' = s.error

\* isAuthenticated of each provider
isAuthenticated ==
    IF variant = "session"
    THEN admin # NullAdmin /\ token # Null
    ELSE admin # NullAdmin

(***************************************************************************)
(* login() invocations                                                     *)
(*                                                                         *)
(* pc: "idle" | "awaitLogin" | "awaitMe" | "resolved" | "rejected".        *)
(* access_token is response.access_token, which the session-only login     *)
(* holds across its second await.  loggedOut records that logout() ran     *)
(* while the call was outstanding; no handler reads it (the providers keep *)
(* no such mark), it only lets properties speak about such calls.          *)
(* Likewise `accepted` is the identity service's side of the story: the    *)
(* tokens it has issued or validated.                                      *)
(***************************************************************************)
IdleCall == [pc |-> "idle", access_token |-> Null, loggedOut |-> FALSE]

InFlight(c) == calls[c].pc \in {"awaitLogin", "awaitMe"}

\* handlers can run once the provider has mounted (its effect runs before any event)
Mounted == pcValidate # "init"

\* a new invocation takes the lowest slot that holds no outstanding call
FreeSlot(c) ==
    /\ ~InFlight(c)
    /\ \A d \in Slots : d < c => InFlight(d)

Settle(c, outcome) == [calls EXCEPT ![c].pc = outcome]

(***************************************************************************)
(* Session-only provider: AuthApiService (GET/POST over fetch)             *)
(***************************************************************************)
\* What the POST /admin/login exchange can produce
LoginFetchOutcomes ==
    { [kind |-> "network", ok |-> FALSE, message |-> Undefined, access_token |-> Undefined],
      [kind |-> "badjson", ok |-> FALSE, message |-> Undefined, access_token |-> Undefined],
      [kind |-> "http", ok |-> FALSE, message |-> "Invalid credentials", access_token |-> Undefined],
      [kind |-> "http", ok |-> FALSE, message |-> Undefined, access_token |-> Undefined] }
    \cup { [kind |-> "http", ok |-> TRUE, message |-> Undefined, access_token |-> t] :
             t \in Tokens \cup {Undefined, Null} }

\* a service whose Error names the HTTP status and never the body's message
authApiLogin_statusOnly(o) ==
    IF o.kind = "http" /\ o.ok
    THEN [threw |-> FALSE, message |-> Undefined, access_token |-> o.access_token]
    ELSE [threw |-> TRUE, message |-> "Login failed: " \o "HTTP 401: Unauthorized",
          access_token |-> Undefined]

\* AuthApiService.login: the data returned, or the Error thrown
authApiLogin(o) ==
    IF o.kind = "network"
    THEN [threw |-> TRUE, message |-> "Login failed: " \o "Failed to fetch", access_token |-> Undefined]
    ELSE IF o.kind = "badjson"
    THEN [threw |-> TRUE, message |-> "Login failed: " \o "Unexpected token in JSON", access_token |-> Undefined]
    ELSE IF ~o.ok
    THEN [threw |-> TRUE,
          message |-> "Login failed: " \o
                      (IF FalsyString(o.message) THEN "HTTP 401: Unauthorized" ELSE o.message),
          access_token |-> Undefined]
    ELSE [threw |-> FALSE, message |-> Undefined, access_token |-> o.access_token]

\* What the GET /admin/me exchange can produce
ProfileFetchOutcomes ==
    { [kind |-> "network", ok |-> FALSE, admin |-> UndefinedAdmin],
      [kind |-> "badjson", ok |-> FALSE, admin |-> UndefinedAdmin],
      [kind |-> "http", ok |-> FALSE, admin |-> UndefinedAdmin] }
    \cup { [kind |-> "http", ok |-> TRUE, admin |-> a] :
             a \in NumericAdmins \cup {UndefinedAdmin, NullAdmin} }

\* AuthApiService.getCurrentAdmin: data.admin, or the Error thrown
authApiGetCurrentAdmin(o) ==
    IF o.kind = "network"
    THEN [threw |-> TRUE, message |-> "Failed to get admin info: " \o "Failed to fetch", admin |-> UndefinedAdmin]
    ELSE IF o.kind = "badjson"
    THEN [threw |-> TRUE, message |-> "Failed to get admin info: " \o "Unexpected token in JSON", admin |-> UndefinedAdmin]
    ELSE IF ~o.ok
    THEN [threw |-> TRUE,
          message |-> "Failed to get admin info: " \o
                      (IF FalsyAdmin(o.admin) THEN "Admin access token required" ELSE "Invalid admin token"),
          admin |-> UndefinedAdmin]
    ELSE [threw |-> FALSE, message |-> Undefined, admin |-> o.admin]

(***************************************************************************)
(* Session-only provider: AuthProvider                                     *)
(***************************************************************************)
S_clearError(s) == setError(s, Null)

S_clearAuthState(s) == setError(setToken(setAdmin(s, NullAdmin), Null), Null)

\* a catch block that reports the error and leaves the session as it was
S_login_catch_keepsSession(s, errorMessage) ==
    setIsLoading(setError(s, errorMessage), FALSE)

\* login(): catch block, then finally
S_login_catch(s, errorMessage) ==
    setIsLoading(S_clearAuthState(setError(s, errorMessage)), FALSE)

\* useEffect on mount: no persistence, only the loading flag is lowered
S_mount ==
    /\ variant = "session"
    /\ pcValidate = "init"
    /\ pcValidate' = "done"
    /\ Commit(setIsLoading(Session, FALSE))
    /\ UNCHANGED <<outside, variant, localStorage, calls, valToken, logoutCalls, accepted>>

\* login(): up to the first await
S_login_call_step(c) ==
    /\ variant = "session"
    /\ Mounted
    /\ FreeSlot(c)
    /\ Commit(setError(setIsLoading(Session, TRUE), Null))
    /\ calls' = [calls EXCEPT ![c] = [pc |-> "awaitLogin", access_token |-> Null, loggedOut |-> FALSE]]
    /\ UNCHANGED <<exceptLoginForm, variant, localStorage, pcValidate, valToken, logoutCalls, accepted>>

S_login_call(c) ==
    /\ S_login_call_step(c)
    /\ UNCHANGED loginForm

\* login(): authApiService.login settles; on success the profile request is issued
S_login_afterLogin_step(c, o) ==
    /\ variant = "session"
    /\ calls[c].pc = "awaitLogin"
    /\ LET response == authApiLogin(o) IN
         IF response.threw
         THEN /\ Commit(S_login_catch(Session, response.message))
              /\ calls' = Settle(c, "rejected")
         ELSE /\ calls' = [calls EXCEPT ![c].pc = "awaitMe",
                                        ![c].access_token = response.access_token]
              /\ UNCHANGED <<admin, token, isLoading, error>>
    /\ UNCHANGED <<exceptLoginForm, variant, localStorage, pcValidate, valToken, logoutCalls, accepted>>

S_login_afterLogin(c, o) ==
    /\ S_login_afterLogin_step(c, o)
    /\ UNCHANGED loginForm

\* login(): the message of the Error thrown after the second await
S_login_afterProfile_thrown(o) ==
    IF authApiGetCurrentAdmin(o).threw
    THEN authApiGetCurrentAdmin(o).message
    ELSE "Cannot read properties of undefined"

\* login(): authApiService.getCurrentAdmin settles
S_login_afterProfile_step(c, o) ==
    /\ variant = "session"
    /\ calls[c].pc = "awaitMe"
    /\ LET adminProfile == authApiGetCurrentAdmin(o)
           saved == setToken(setAdmin(Session, adminProfile.admin), calls[c].access_token)
       IN
         IF adminProfile.threw
         THEN /\ Commit(S_login_catch(Session, S_login_afterProfile_thrown(o)))
              /\ calls' = Settle(c, "rejected")
         ELSE IF FalsyAdmin(adminProfile.admin)
         \* adminProfile.username on null/undefined throws a TypeError after the setters ran
         THEN /\ Commit(S_login_catch(saved, S_login_afterProfile_thrown(o)))
              /\ calls' = Settle(c, "rejected")
         ELSE /\ Commit(setIsLoading(saved, FALSE))
              /\ calls' = Settle(c, "resolved")
    /\ UNCHANGED <<exceptLoginForm, variant, localStorage, pcValidate, valToken, logoutCalls, accepted>>

S_login_afterProfile(c, o) ==
    /\ S_login_afterProfile_step(c, o)
    /\ UNCHANGED loginForm

\* logout(): no await, no server call
\* a logout that clears the admin and the error and keeps the token
S_logout_clear_keepsToken(s) ==
    setIsLoading(setError(setAdmin(setIsLoading(s, TRUE), NullAdmin), Null), FALSE)

\* logout(): the writes of the try body and of finally
S_logout_clear(s) ==
    setIsLoading(S_clearAuthState(setIsLoading(s, TRUE)), FALSE)

S_logout ==
    /\ variant = "session"
    /\ Mounted
    /\ Commit(S_logout_clear(Session))
    /\ calls' = [c \in Slots |-> IF InFlight(c) THEN [calls[c] EXCEPT !.loggedOut = TRUE] ELSE calls[c]]
    /\ UNCHANGED <<outside, variant, localStorage, pcValidate, valToken, logoutCalls, accepted>>

\* clearError(): the same in both providers
clearError ==
    /\ Mounted
    /\ Commit(S_clearError(Session))
    /\ UNCHANGED <<outside, variant, localStorage, calls, pcValidate, valToken, logoutCalls, accepted>>

(***************************************************************************)
(* Persisted provider: JSON text of an Admin                               *)
(***************************************************************************)
RECURSIVE JoinQuoted(_)
JoinQuoted(seq) ==
    IF Len(seq) = 0 THEN ""
    ELSE IF Len(seq) = 1 THEN "\"" \o seq[1] \o "\""
    ELSE "\"" \o seq[1] \o "\"," \o JoinQuoted(Tail(seq))

\* a serialiser that writes id and role only
JSON_stringify_dropsPermissions(a) ==
    "{\"id\":\"" \o a.id \o "\",\"role\":\"" \o a.role \o "\"}"

\* JSON.stringify(adminData): an absent permission list leaves no key
JSON_stringify(a) ==
    "{\"id\":\"" \o a.id \o "\",\"role\":\"" \o a.role \o "\""
    \o (IF a.hasPermissions
        THEN ",\"permissions\":[" \o JoinQuoted(a.permissions) \o "]"
        ELSE "")
    \o "}"

\* stored text that is no JSON value
CorruptJson == "{\"id\":\"1\",\"ro"

\* the object texts JSON.parse is given here, each with the object it reads
JSON_objects ==
    ( "{\"id\":\"1\",\"role\":\"super_admin\",\"permissions\":[\"read:users\",\"write:users\"]}"
        :> [kind |-> "admin", id |-> "1", role |-> "super_admin",
            hasPermissions |-> TRUE, permissions |-> <<"read:users", "write:users">>] )
    @@ ( "{\"id\":\"2\",\"role\":\"admin\"}"
        :> [kind |-> "admin", id |-> "2", role |-> "admin",
            hasPermissions |-> FALSE, permissions |-> <<>>] )
    @@ ( "{\"id\":\"3\",\"role\":\"superadmin\",\"permissions\":[]}"
        :> [kind |-> "admin", id |-> "3", role |-> "superadmin",
            hasPermissions |-> TRUE, permissions |-> <<>>] )
    @@ ( "{\"id\":\"4\",\"role\":\"Super_Admin\",\"permissions\":[\"read:users\"]}"
        :> [kind |-> "admin", id |-> "4", role |-> "Super_Admin",
            hasPermissions |-> TRUE, permissions |-> <<"read:users">>] )

\* JSON.parse(text): the value read, or a SyntaxError (the empty string and
\* truncated text are no JSON value)
JSON_parse(text) ==
    IF text = "null"
    THEN [threw |-> FALSE, value |-> NullAdmin]
    ELSE IF text \in DOMAIN JSON_objects
    THEN [threw |-> FALSE, value |-> JSON_objects[text]]
    ELSE [threw |-> TRUE, value |-> UndefinedAdmin]

(***************************************************************************)
(* Persisted provider: localStorage helpers                                *)
(***************************************************************************)
\* a save that writes the admin text and leaves the token entry as it was
P_saveToStorage_adminOnly(ls, tok, adminData) ==
    [ls EXCEPT !.adminData = JSON_stringify(adminData)]

\* a save that writes the token and leaves the stored admin text as it was
P_saveToStorage_keepsAdminData(ls, tok, adminData) ==
    [ls EXCEPT !.authToken = tok]

P_saveToStorage(ls, tok, adminData) ==
    [ls EXCEPT !.authToken = tok, !.adminData = JSON_stringify(adminData)]

P_clearStorage(ls) ==
    [ls EXCEPT !.authToken = Null, !.adminData = Null]

\* loadFromStorage: the pair returned and the storage it leaves
P_loadFromStorage(ls) ==
    LET tok == ls.authToken
        adminDataJson == ls.adminData
        parsed == JSON_parse(adminDataJson)
    IN  IF FalsyString(tok) \/ FalsyString(adminDataJson)
        THEN [token |-> Null, adminData |-> NullAdmin, storage |-> ls]
        ELSE IF parsed.threw
        THEN [token |-> Null, adminData |-> NullAdmin, storage |-> P_clearStorage(ls)]
        ELSE [token |-> tok, adminData |-> parsed.value, storage |-> ls]

(***************************************************************************)
(* Persisted provider: what the identity service calls settle with         *)
(* (POST /admin/login, GET /admin/validate; a promise that resolves with   *)
(* the response body or rejects with an Error)                             *)
(***************************************************************************)
LoginResults ==
    { [rejects |-> TRUE, success |-> FALSE, token |-> Undefined, admin |-> UndefinedAdmin,
       message |-> "Network error"],
      [rejects |-> FALSE, success |-> FALSE, token |-> Undefined, admin |-> UndefinedAdmin,
       message |-> "Invalid credentials"],
      [rejects |-> FALSE, success |-> FALSE, token |-> Undefined, admin |-> UndefinedAdmin,
       message |-> Undefined] }
    \cup { [rejects |-> FALSE, success |-> TRUE, token |-> t, admin |-> a, message |-> "Login successful"] :
             t \in Tokens \cup {Undefined}, a \in StringAdmins \cup {UndefinedAdmin} }

ValidateResults ==
    { [rejects |-> TRUE, success |-> FALSE, admin |-> UndefinedAdmin, message |-> "Network error"],
      [rejects |-> FALSE, success |-> FALSE, admin |-> UndefinedAdmin, message |-> "Token expired"],
      [rejects |-> FALSE, success |-> FALSE, admin |-> UndefinedAdmin, message |-> Undefined] }
    \cup { [rejects |-> FALSE, success |-> TRUE, admin |-> a, message |-> "Token valid"] :
             a \in StringAdmins \cup {UndefinedAdmin} }

\* the service accepted the credentials and issued r.token
ServiceIssued(r) == ~r.rejects /\ r.success /\ ~FalsyString(r.token)
\* the service accepted the token presented to it
ServiceValidated(r) == ~r.rejects /\ r.success

(***************************************************************************)
(* Persisted provider: AuthProvider                                        *)
(***************************************************************************)
\* login(): up to the await
P_login_call_step(c) ==
    /\ variant = "persisted"
    /\ Mounted
    /\ FreeSlot(c)
    /\ Commit(setError(setIsLoading(Session, TRUE), Null))
    /\ calls' = [calls EXCEPT ![c] = [pc |-> "awaitLogin", access_token |-> Null, loggedOut |-> FALSE]]
    /\ UNCHANGED <<exceptLoginForm, variant, localStorage, pcValidate, valToken, logoutCalls, accepted>>

P_login_call(c) ==
    /\ P_login_call_step(c)
    /\ UNCHANGED loginForm

\* a catch block that reports the error and keeps the admin
P_login_catch_keepsAdmin(s, errorMessage) ==
    setIsLoading(setError(s, errorMessage), FALSE)

\* login(): catch block, then finally (the storage is cleared beside it)
P_login_catch(s, errorMessage) ==
    setIsLoading(setAdmin(setError(s, errorMessage), NullAdmin), FALSE)

\* login(): the check of the response body
P_login_invalid(response) ==
    ~response.success \/ FalsyString(response.token) \/ FalsyAdmin(response.admin)

\* login(): the message of the Error its catch block receives and rethrows
P_login_thrown(response) ==
    IF response.rejects THEN response.message
    ELSE IF FalsyString(response.message) THEN "Login failed - invalid response"
    ELSE response.message

\* login(): authApiService.login settles
P_login_afterLogin_step(c, response) ==
    /\ variant = "persisted"
    /\ calls[c].pc = "awaitLogin"
    /\ IF response.rejects
       THEN /\ Commit(P_login_catch(Session, P_login_thrown(response)))
            /\ localStorage' = P_clearStorage(localStorage)
            /\ calls' = Settle(c, "rejected")
       ELSE IF P_login_invalid(response)
       THEN /\ Commit(P_login_catch(Session, P_login_thrown(response)))
            /\ localStorage' = P_clearStorage(localStorage)
            /\ calls' = Settle(c, "rejected")
       ELSE /\ Commit(setIsLoading(setAdmin(Session, response.admin), FALSE))
            /\ localStorage' = P_saveToStorage(localStorage, response.token, response.admin)
            /\ calls' = Settle(c, "resolved")
    /\ accepted' = IF ServiceIssued(response) THEN accepted \cup {response.token} ELSE accepted
    /\ UNCHANGED <<exceptLoginForm, variant, pcValidate, valToken, logoutCalls>>

P_login_afterLogin(c, response) ==
    /\ P_login_afterLogin_step(c, response)
    /\ UNCHANGED loginForm

\* a logout that leaves the last error standing
P_logout_clear_keepsError(s) ==
    setIsLoading(setAdmin(setIsLoading(s, TRUE), NullAdmin), FALSE)

\* logout(): try body or catch body (the same writes), then finally
P_logout_clear(s) ==
    setIsLoading(setError(setAdmin(setIsLoading(s, TRUE), NullAdmin), Null), FALSE)

\* logout(): no await; the server call, if one is issued, is not waited for.
\* issued = FALSE with a stored token is authApiService.logout throwing at the
\* call, which the catch block answers with the same clearing.
P_logout(issued) ==
    /\ variant = "persisted"
    /\ Mounted
    /\ issued => ~FalsyString(localStorage.authToken) /\ logoutCalls < MaxLogoutCalls
    /\ logoutCalls' = IF issued THEN logoutCalls + 1 ELSE logoutCalls
    /\ Commit(P_logout_clear(Session))
    /\ localStorage' = P_clearStorage(localStorage)
    /\ calls' = [c \in Slots |-> IF InFlight(c) THEN [calls[c] EXCEPT !.loggedOut = TRUE] ELSE calls[c]]
    /\ UNCHANGED <<outside, variant, pcValidate, valToken, accepted>>

\* the server-side logout call resolves, or rejects into console.warn
P_logout_settled ==
    /\ variant = "persisted"
    /\ logoutCalls > 0
    /\ logoutCalls' = logoutCalls - 1
    /\ UNCHANGED <<outside, variant, admin, token, isLoading, error, localStorage, calls,
                   pcValidate, valToken, accepted>>

\* a provider that shows the stored Identity while the token is being validated
P_validate_begin_hydrates(s, loaded) == setAdmin(setIsLoading(s, TRUE), loaded.adminData)

\* validateExistingToken(): the state written before the storage is inspected;
\* the pair read from storage is not written to the session
P_validate_begin(s, loaded) == setIsLoading(s, TRUE)

\* validateExistingToken(): mount effect, up to the early return or the await
P_validateExistingToken_call ==
    /\ variant = "persisted"
    /\ pcValidate = "init"
    /\ LET loaded == P_loadFromStorage(localStorage) IN
         /\ localStorage' = loaded.storage
         /\ IF FalsyString(loaded.token) \/ FalsyAdmin(loaded.adminData)
            THEN /\ Commit(setIsLoading(setIsLoading(P_validate_begin(Session, loaded), FALSE), FALSE))
                 /\ pcValidate' = "done"
                 /\ valToken' = Null
            ELSE /\ Commit(P_validate_begin(Session, loaded))
                 /\ pcValidate' = "awaiting"
                 /\ valToken' = loaded.token
    /\ UNCHANGED <<outside, variant, calls, logoutCalls, accepted>>

\* a catch block that leaves the last error standing
P_validate_catch_keepsError(s) ==
    setIsLoading(setAdmin(s, NullAdmin), FALSE)

\* a catch block without the finally that lowers the loading flag
P_validate_catch_staysLoading(s) ==
    setError(setAdmin(s, NullAdmin), Null)

\* validateExistingToken(): catch block, then finally
P_validate_catch(s) ==
    setIsLoading(setError(setAdmin(s, NullAdmin), Null), FALSE)

\* validateExistingToken(): authApiService.validateToken settles
P_validateExistingToken_afterValidate(response) ==
    /\ variant = "persisted"
    /\ pcValidate = "awaiting"
    /\ IF ~response.rejects /\ response.success /\ ~FalsyAdmin(response.admin)
       THEN /\ Commit(setIsLoading(setAdmin(Session, response.admin), FALSE))
            /\ localStorage' = P_saveToStorage(localStorage, valToken, response.admin)
       ELSE /\ Commit(P_validate_catch(Session))
            /\ localStorage' = P_clearStorage(localStorage)
    /\ pcValidate' = "done"
    /\ accepted' = IF ServiceValidated(response) THEN accepted \cup {valToken} ELSE accepted
    /\ UNCHANGED <<outside, variant, calls, valToken, logoutCalls>>

(***************************************************************************)
(* Specification                                                           *)
(***************************************************************************)
InitSession ==
    /\ variant = "session"
    /\ admin = NullAdmin
    /\ token = Null
    /\ isLoading = TRUE
    /\ error = Null
    /\ localStorage = [authToken |-> Null, adminData |-> Null]
    /\ calls = [c \in Slots |-> IdleCall]
    /\ pcValidate = "init"
    /\ valToken = Null
    /\ logoutCalls = 0
    /\ accepted = {}
    /\ storageOp = NoStorageOp
    /\ evaluated = NothingEvaluated
    /\ InitComponents

\* what a page load can find in localStorage
StoredTokens == {Null, "", "tok-A"}
StoredAdminData == {Null, "", "null", CorruptJson} \cup {JSON_stringify(a) : a \in StringAdmins}

InitPersisted ==
    /\ variant = "persisted"
    /\ admin = NullAdmin
    /\ token = Null
    /\ isLoading = TRUE
    /\ error = Null
    /\ localStorage \in [authToken : StoredTokens, adminData : StoredAdminData]
    /\ calls = [c \in Slots |-> IdleCall]
    /\ pcValidate = "init"
    /\ valToken = Null
    /\ logoutCalls = 0
    /\ accepted = {}
    /\ storageOp = NoStorageOp
    /\ evaluated = NothingEvaluated
    /\ InitComponents

Init == InitSession \/ InitPersisted

Next ==
    \/ S_mount
    \/ \E c \in Slots : S_login_call(c)
    \/ \E c \in Slots, o \in LoginFetchOutcomes : S_login_afterLogin(c, o)
    \/ \E c \in Slots, o \in ProfileFetchOutcomes : S_login_afterProfile(c, o)
    \/ S_logout
    \/ clearError
    \/ P_validateExistingToken_call
    \/ \E r \in ValidateResults : P_validateExistingToken_afterValidate(r)
    \/ \E c \in Slots : P_login_call(c)
    \/ \E c \in Slots, r \in LoginResults : P_login_afterLogin(c, r)
    \/ \E issued \in BOOLEAN : P_logout(issued)
    \/ P_logout_settled

Spec == Init /\ [][Next]_vars

(***************************************************************************)
(* Properties                                                              *)
(***************************************************************************)
EmptyStorage == [authToken |-> Null, adminData |-> Null]

\* the call in slot c settles in this step
Settles(c) == InFlight(c) /\ calls'[c].pc \in {"resolved", "rejected"}

\* C1: whenever the identity service accepts a login (session-only provider:
\* the login call returned a token and the follow-up profile call returns an
\* admin; persisted provider: the login response carries success, a token and
\* an admin), login() resolves and the Session then holds that Identity and
\* that Credential and isAuthenticated is true; the persisted provider has
\* written both storage entries.
C1_LoginEstablishesSession ==
    [][ \A c \in Slots :
          InFlight(c) /\ calls'[c] # calls[c]
          => /\ \A o \in ProfileFetchOutcomes :
                  ( /\ calls[c].access_token \in Tokens
                    /\ o.kind = "http" /\ o.ok /\ o.admin \in NumericAdmins
                    /\ S_login_afterProfile(c, o) )
                  => ( /\ calls'[c].pc = "resolved"
                       /\ admin' = o.admin
                       /\ token' = calls[c].access_token
                       /\ isAuthenticated' )
             /\ \A r \in LoginResults :
                  ( /\ ServiceIssued(r) /\ r.admin \in StringAdmins
                    /\ P_login_afterLogin(c, r) )
                  => ( /\ calls'[c].pc = "resolved"
                       /\ admin' = r.admin
                       /\ isAuthenticated'
                       /\ localStorage'.authToken = r.token
                       /\ localStorage'.adminData = JSON_stringify(r.admin) )
      ]_vars

\* C1 witness: a login of the session-only provider has resolved and the
\* Session holds an Identity and a Credential
C1_Witness ==
    /\ variant = "session"
    /\ \E c \in Slots : calls[c].pc = "resolved" /\ calls[c].access_token \in Tokens
    /\ admin \in NumericAdmins
    /\ token \in Tokens
    /\ isAuthenticated

\* C2: whenever a login() settles by rejecting (the login call failed, or the
\* profile call failed after a token was obtained), the Session is empty
\* afterwards, whatever it held before: no admin, no token in memory, and in
\* the persisted provider no storage entry.
C2_FailedLoginEmptiesSession ==
    [][ \A c \in Slots :
          (Settles(c) /\ calls'[c].pc = "rejected")
          => ( /\ admin' = NullAdmin
               /\ token' = Null
               /\ ~isAuthenticated'
               /\ variant = "persisted" => localStorage' = EmptyStorage )
      ]_vars

\* C2 witness: the profile call of a login failed after its token was
\* obtained, while an earlier login had resolved; the Session is empty
C2_Witness ==
    /\ variant = "session"
    /\ \E c, d \in Slots :
          /\ calls[c].pc = "rejected" /\ calls[c].access_token \in Tokens
          /\ calls[d].pc = "resolved"
    /\ admin = NullAdmin
    /\ token = Null

\* C3: after a login() that fails, the error field holds a non-empty message
\* (the text the login form renders inline).
C3_FailedLoginSurfacesError ==
    [][ \A c \in Slots :
          (Settles(c) /\ calls'[c].pc = "rejected") => ~FalsyString(error')
      ]_vars

\* C4: a 2xx response with a malformed body (login response without a token,
\* login or profile response without an admin) makes login() reject, and the
\* Session is not authenticated afterwards: no Identity and no Credential, in
\* particular none set to an undefined value.
C4_MalformedBodyIsFailure ==
    [][ \A c \in Slots :
          InFlight(c) /\ calls'[c] # calls[c]
          => /\ \A o \in ProfileFetchOutcomes :
                  ( /\ \/ FalsyString(calls[c].access_token)
                       \/ (o.kind = "http" /\ o.ok /\ FalsyAdmin(o.admin))
                    /\ S_login_afterProfile(c, o) )
                  => ( /\ calls'[c].pc = "rejected"
                       /\ ~isAuthenticated'
                       /\ admin' = NullAdmin
                       /\ token' = Null )
             /\ \A r \in LoginResults :
                  ( /\ ~r.rejects /\ r.success
                    /\ (FalsyString(r.token) \/ FalsyAdmin(r.admin))
                    /\ P_login_afterLogin(c, r) )
                  => ( /\ calls'[c].pc = "rejected"
                       /\ ~isAuthenticated'
                       /\ localStorage' = EmptyStorage )
      ]_vars

\* C5: logout() always ends with an empty Session: no admin, no token in
\* memory or in storage, error null, isLoading false, whether or not a server
\* call was issued; and the server call settling, by success or by failure,
\* changes nothing of the Session.
C5_LogoutEmptiesSession ==
    [][ /\ (S_logout \/ \E issued \in BOOLEAN : P_logout(issued))
           => ( /\ admin' = NullAdmin
                /\ token' = Null
                /\ error' = Null
                /\ isLoading' = FALSE
                /\ variant = "persisted" => localStorage' = EmptyStorage )
        /\ (logoutCalls' < logoutCalls /\ P_logout_settled)
           => UNCHANGED <<admin, token, error, isLoading, localStorage>>
      ]_vars

\* C5 witness: the persisted provider was logged out with a stored token, the
\* server call is still unanswered, and the Session is empty
C5_Witness ==
    /\ variant = "persisted"
    /\ logoutCalls > 0
    /\ admin = NullAdmin
    /\ localStorage = EmptyStorage
    /\ error = Null
    /\ isLoading = FALSE

\* C6: a login() that was in flight when logout() ran does not set Identity
\* or Credential when it later completes successfully: the Session, in memory
\* and in storage, is left as it was.
C6_LogoutWinsOverPendingLogin ==
    [][ \A c \in Slots :
          (calls[c].loggedOut /\ Settles(c) /\ calls'[c].pc = "resolved")
          => UNCHANGED <<admin, token, localStorage>>
      ]_vars

\* C7: in the persisted provider the Session is authenticated only if the
\* identity service has accepted the stored Credential in a login or validate
\* response; the Identity found in storage at startup is never exposed before
\* the service has accepted the stored token.
C7_AuthenticatedOnlyIfAccepted ==
    (variant = "persisted" /\ admin # NullAdmin)
    => localStorage.authToken \in accepted

\* C7 witness: the session was restored by startup validation alone
C7_Witness ==
    /\ variant = "persisted"
    /\ pcValidate = "done"
    /\ \A c \in Slots : calls[c].pc = "idle"
    /\ admin \in StringAdmins
    /\ localStorage.authToken \in accepted

\* C8: in the session-only provider admin is null if and only if token is
\* absent, in every reachable state.
C8_IdentityIffCredential ==
    variant = "session"
    => ((admin = NullAdmin) <=> (token \in {Null, Undefined}))

\* C9 as claimed: in the persisted provider memory is authenticated if and
\* only if storage holds the Credential, from startup on.
C9_MemoryIffStorage ==
    variant = "persisted"
    => ((admin # NullAdmin) <=> (localStorage.authToken # Null))

\* C9 as amended: in the persisted provider no state has memory authenticated
\* while storage lacks the token or the Identity entry, and every step that
\* writes admin or a storage entry leaves the two in agreement (admin non-null
\* exactly when a token is stored).  A token can sit in storage while memory
\* is unauthenticated only as it was found at startup, before the provider's
\* first write.
C9_WritesKeepAgreement ==
    [][ variant = "persisted"
        => /\ admin' # NullAdmin
              => (~FalsyString(localStorage'.authToken) /\ ~FalsyString(localStorage'.adminData))
           /\ (admin' # admin \/ localStorage' # localStorage)
              => ((admin' # NullAdmin) <=> (localStorage'.authToken # Null))
      ]_vars

\* C9 witness: authenticated by a login, with both entries stored
C9_Witness ==
    /\ variant = "persisted"
    /\ \E c \in Slots : calls[c].pc = "resolved"
    /\ admin \in StringAdmins
    /\ localStorage.authToken \in Tokens
    /\ localStorage.adminData # Null

\* C10: when startup validation of a stored token fails (the service
\* answers without success, or the call rejects), the routine ends normally
\* with admin null, both storage entries removed, error null and isLoading
\* false.
C10_FailedValidationIsSilent ==
    [][ pcValidate = "awaiting" /\ pcValidate' # "awaiting"
        => \A r \in ValidateResults :
             ((r.rejects \/ ~r.success) /\ P_validateExistingToken_afterValidate(r))
             => ( /\ pcValidate' = "done"
                  /\ admin' = NullAdmin
                  /\ localStorage' = EmptyStorage
                  /\ error' = Null
                  /\ isLoading' = FALSE )
      ]_vars

\* C10 witness: validation of the stored token was awaited and the service
\* never accepted a token; the Session is empty and no longer loading
C10_Witness ==
    /\ variant = "persisted"
    /\ pcValidate = "done"
    /\ valToken # Null
    /\ accepted = {}
    /\ \A c \in Slots : calls[c].pc = "idle"
    /\ admin = NullAdmin
    /\ localStorage = EmptyStorage
    /\ error = Null
    /\ isLoading = FALSE

\* C11: when the startup validation of a stored token succeeds, the step that
\* settles it leaves the Session authenticated with the admin the service
\* returned (whatever admin text was stored), and leaves in storage the token
\* that was validated together with the JSON text of that returned admin.  The
\* storage a login leaves is one of the storages a page load starts from, so
\* a reload with a still-valid token is authenticated without a new login.
C11_ValidationRefreshesSession ==
    [][ (pcValidate = "awaiting" /\ pcValidate' = "done") =>
          \A r \in ValidateResults :
              ( /\ ServiceValidated(r)
                /\ r.admin \in StringAdmins
                /\ P_validateExistingToken_afterValidate(r) )
              => /\ admin' = r.admin
                 /\ isAuthenticated'
                 /\ ~isLoading'
                 /\ localStorage' = [authToken |-> valToken,
                                     adminData |-> JSON_stringify(r.admin)]
      ]_vars

\* the page was loaded with a stored pair, no login was made in this page
\* load, and the Session is authenticated with what storage now holds
C11_Witness ==
    /\ variant = "persisted"
    /\ pcValidate = "done"
    /\ \A c \in Slots : calls[c] = IdleCall
    /\ logoutCalls = 0
    /\ admin \in StringAdmins
    /\ ~isLoading
    /\ valToken \in Tokens
    /\ localStorage = [authToken |-> valToken, adminData |-> JSON_stringify(admin)]

(***************************************************************************)
(* The persistence helpers on their own: the two localStorage entries hold *)
(* anything a browser can hold under the two keys, and the helpers of the  *)
(* persisted provider are called in any order.  storageOp records the last *)
(* call: the arguments of a save, the pair returned by a load, and the     *)
(* entries the call found.                                                 *)
(***************************************************************************)
providerVars == <<variant, admin, token, isLoading, error,
                  calls, pcValidate, valToken, logoutCalls, accepted>>

AllStringAdmins == StringAdmins \cup OtherStringAdmins

\* localStorage.getItem(TOKEN_KEY): missing, empty, or a token
AnyStoredToken == {Null, ""} \cup Tokens
\* localStorage.getItem(ADMIN_KEY): missing, empty, the literal null,
\* truncated text, or the text of an admin object
AnyStoredAdminData == {Null, "", "null", CorruptJson} \cup DOMAIN JSON_objects

InitStorage ==
    /\ variant = "persisted"
    /\ admin = NullAdmin
    /\ token = Null
    /\ isLoading = TRUE
    /\ error = Null
    /\ calls = [c \in Slots |-> IdleCall]
    /\ pcValidate = "init"
    /\ valToken = Null
    /\ logoutCalls = 0
    /\ accepted = {}
    /\ evaluated = NothingEvaluated
    /\ storageOp = NoStorageOp
    /\ InitComponents
    /\ localStorage \in [authToken : AnyStoredToken, adminData : AnyStoredAdminData]

saveToStorage(tok, adminData) ==
    /\ localStorage' = P_saveToStorage(localStorage, tok, adminData)
    /\ storageOp' = [op |-> "save", token |-> tok, adminData |-> adminData,
                     found |-> localStorage]
    /\ UNCHANGED <<providerVars, evaluated, components>>

clearStorage ==
    /\ localStorage' = P_clearStorage(localStorage)
    /\ storageOp' = [op |-> "clear", token |-> Null, adminData |-> NullAdmin,
                     found |-> localStorage]
    /\ UNCHANGED <<providerVars, evaluated, components>>

loadFromStorage ==
    LET loaded == P_loadFromStorage(localStorage)
    IN  /\ localStorage' = loaded.storage
        /\ storageOp' = [op |-> "load", token |-> loaded.token, adminData |-> loaded.adminData,
                         found |-> localStorage]
        /\ UNCHANGED <<providerVars, evaluated, components>>

NextStorage ==
    \/ \E tok \in Tokens, adminData \in AllStringAdmins : saveToStorage(tok, adminData)
    \/ clearStorage
    \/ loadFromStorage

SpecStorage == InitStorage /\ [][NextStorage]_vars

\* the step is a call of loadFromStorage
LoadStep == storageOp'.op = "load" /\ storageOp'.found = localStorage

\* C12: the pair a load returns has a token and an admin, or neither,
\* whatever the two entries held.
C12_LoadReturnsBothOrNeither ==
    storageOp.op = "load" =>
        ((storageOp.token = Null) <=> (storageOp.adminData = NullAdmin))

\* one entry is there without the other
PartialStorage(ls) == (ls.authToken = Null) # (ls.adminData = Null)
\* the admin entry is there and is no JSON value
UnparseableStorage(ls) == ls.adminData # Null /\ JSON_parse(ls.adminData).threw

\* C13: a load that finds partial or unparseable data returns the empty pair
\* and leaves both entries absent.
C13_LoadHealsDamagedStorage ==
    [][ (LoadStep /\ (PartialStorage(localStorage) \/ UnparseableStorage(localStorage)))
        => /\ storageOp'.token = Null
           /\ storageOp'.adminData = NullAdmin
           /\ localStorage' = EmptyStorage
      ]_vars

\* C14: a load that follows a save returns the token and the admin that were
\* saved and leaves the two entries as saved; a load that follows a clear
\* returns the empty pair.
C14_SaveLoadRoundTrip ==
    [][ LoadStep =>
          /\ storageOp.op = "save" =>
                /\ storageOp'.token = storageOp.token
                /\ storageOp'.adminData = storageOp.adminData
                /\ localStorage' = localStorage
          /\ storageOp.op = "clear" =>
                /\ storageOp'.token = Null
                /\ storageOp'.adminData = NullAdmin
                /\ localStorage' = EmptyStorage
      ]_vars

\* an admin with a permission list was saved over other content and read back
C14_Witness ==
    /\ storageOp.op = "load"
    /\ storageOp.token \in Tokens
    /\ storageOp.adminData \in AllStringAdmins
    /\ storageOp.adminData.hasPermissions
    /\ localStorage = P_saveToStorage(EmptyStorage, storageOp.token, storageOp.adminData)

\* what a call of logout() writes to the session cell, in either provider
LogoutClear(s) == IF variant = "session" THEN S_logout_clear(s) ELSE P_logout_clear(s)

EmptySession == [admin |-> NullAdmin, token |-> Null, isLoading |-> FALSE, error |-> Null]

\* C15: logout() leaves the empty Session (admin, token, error null, loading
\* flag false, both storage entries absent), and a second logout() called on
\* what the first one left writes the same values again: twice is as once.
C15_LogoutIdempotent ==
    [][ (S_logout \/ \E issued \in BOOLEAN : P_logout(issued))
        => /\ Session' = EmptySession
           /\ localStorage' = EmptyStorage
           /\ LogoutClear(Session') = Session'
           /\ variant = "persisted" => P_clearStorage(localStorage') = localStorage'
      ]_vars

\* a login had succeeded and the Session was then logged out: it is empty, in
\* memory and in storage, and a further logout() can be called
C15_Witness ==
    /\ Mounted
    /\ \E c \in Slots : calls[c].pc = "resolved"
    /\ \A c \in Slots : ~InFlight(c)
    /\ Session = EmptySession
    /\ localStorage = EmptyStorage
    /\ ENABLED (S_logout \/ P_logout(FALSE))

(***************************************************************************)
(* Access helpers of the two providers.  They read the admin of the        *)
(* session cell; `admin?.x` is undefined when the admin is null.           *)
(***************************************************************************)
\* a role check that also accepts any more privileged (lower) role
S_hasRole_orHigher(role) == ~FalsyAdmin(admin) /\ admin.role <= role

S_hasRole(role) == ~FalsyAdmin(admin) /\ admin.role = role

S_isSuperAdmin == ~FalsyAdmin(admin) /\ admin.role = 0

\* a role name without the Guest case
S_getRoleName_noGuest ==
    IF ~FalsyAdmin(admin) /\ admin.role = 0 THEN "Super Admin" ELSE "Admin"

S_getRoleName ==
    IF FalsyAdmin(admin) THEN "Guest"
    ELSE IF admin.role = 0 THEN "Super Admin" ELSE "Admin"

P_hasRole(role) == ~FalsyAdmin(admin) /\ admin.role = role

\* a permission check that lets an admin without a permission list pass
P_hasPermission_noListAllows(permission) ==
    /\ ~FalsyAdmin(admin)
    /\ admin.hasPermissions =>
           \E i \in 1..Len(admin.permissions) : admin.permissions[i] = permission

\* admin?.permissions?.includes(permission) || false
P_hasPermission(permission) ==
    /\ ~FalsyAdmin(admin)
    /\ admin.hasPermissions
    /\ \E i \in 1..Len(admin.permissions) : admin.permissions[i] = permission

\* a super-admin check that knows one spelling only
P_isSuperAdmin_oneSpelling == ~FalsyAdmin(admin) /\ admin.role = "super_admin"

P_isSuperAdmin ==
    ~FalsyAdmin(admin) /\ (admin.role = "super_admin" \/ admin.role = "superadmin")

(***************************************************************************)
(* The route guards.  An optional prop is given or not; `prop && ...`      *)
(* tests the truthiness of its value.  A view is what the guard returns:   *)
(* the spinner, <Login/>, one of the two refusals (the fallback prop, when *)
(* given, stands in their place), or the children.                         *)
(***************************************************************************)
NoProp == [given |-> FALSE]
Prop(v) == [given |-> TRUE, value |-> v]

TruthyNumber(p) == p.given /\ p.value # 0
TruthyText(p) == p.given /\ p.value # ""

\* a guard without the spinner branch
S_ProtectedRoute_ignoresLoading(requiredRole) ==
    IF ~isAuthenticated THEN "login"
    ELSE IF /\ TruthyNumber(requiredRole)
            /\ ~S_hasRole(requiredRole.value)
            /\ ~S_isSuperAdmin
    THEN "access-denied"
    ELSE "children"

\* components/auth/ProtectedRoute.tsx, of the session-only provider
S_ProtectedRoute(requiredRole) ==
    IF isLoading THEN "loading"
    ELSE IF ~isAuthenticated THEN "login"
    ELSE IF /\ TruthyNumber(requiredRole)
            /\ ~S_hasRole(requiredRole.value)
            /\ ~S_isSuperAdmin
    THEN "access-denied"
    ELSE "children"

\* components/ProtectedRoute.tsx, of the persisted provider
P_ProtectedRoute(requiredRole, requiredPermission) ==
    IF isLoading THEN "loading"
    ELSE IF ~isAuthenticated THEN "login"
    ELSE IF /\ TruthyText(requiredRole)
            /\ ~P_hasRole(requiredRole.value)
            /\ ~P_isSuperAdmin
    THEN "access-denied"
    ELSE IF /\ TruthyText(requiredPermission)
            /\ ~P_hasPermission(requiredPermission.value)
            /\ ~P_isSuperAdmin
    THEN "insufficient-permissions"
    ELSE "children"

(***************************************************************************)
(* The access helpers and the guards on their own: the Session is any one  *)
(* a provider can hold after mounting (empty, or authenticated with any    *)
(* admin of the service, with the loading flag up or down), and consumers  *)
(* of the context evaluate against it.  `evaluated` records the last       *)
(* evaluation: the function, its argument, the value returned.             *)
(***************************************************************************)
\* roles and permissions a caller asks for
NumericRoles == {0, 1, 2}
StringRoles == {"super_admin", "superadmin", "admin", "Admin"}
Permissions == {"read:users", "write:users", "write:system"}

InitAccess ==
    /\ variant \in {"session", "persisted"}
    /\ isLoading \in BOOLEAN
    /\ error = Null
    /\ calls = [c \in Slots |-> IdleCall]
    /\ pcValidate = "done"
    /\ valToken = Null
    /\ logoutCalls = 0
    /\ evaluated = NothingEvaluated
    /\ storageOp = NoStorageOp
    /\ InitComponents
    /\ \/ /\ variant = "session"
          /\ localStorage = EmptyStorage
          /\ \/ admin = NullAdmin /\ token = Null /\ accepted = {}
             \/ /\ admin \in NumericAdmins
                /\ token \in Tokens
                /\ accepted = {token}
       \/ /\ variant = "persisted"
          /\ token = Null
          /\ \/ admin = NullAdmin /\ localStorage = EmptyStorage /\ accepted = {}
             \/ /\ admin \in AllStringAdmins
                /\ \E tok \in Tokens :
                      /\ localStorage = P_saveToStorage(EmptyStorage, tok, admin)
                      /\ accepted = {tok}

\* an evaluation that reports a refusal through the provider's error
Evaluate_reportsRefusal(fn, arg, result) ==
    /\ evaluated' = [fn |-> fn, arg |-> arg, result |-> result]
    /\ error' = IF fn = "ProtectedRoute" /\ result = "access-denied"
                THEN "Access Denied" ELSE error
    /\ UNCHANGED <<variant, admin, token, isLoading, calls, pcValidate, valToken,
                   logoutCalls, accepted, localStorage, storageOp, components>>

Evaluate(fn, arg, result) ==
    /\ evaluated' = [fn |-> fn, arg |-> arg, result |-> result]
    /\ UNCHANGED <<providerVars, localStorage, storageOp, components>>

S_hasRole_evaluate(role) ==
    /\ variant = "session"
    /\ Evaluate("hasRole", role, S_hasRole(role))

S_isSuperAdmin_evaluate ==
    /\ variant = "session"
    /\ Evaluate("isSuperAdmin", Null, S_isSuperAdmin)

S_getRoleName_evaluate ==
    /\ variant = "session"
    /\ Evaluate("getRoleName", Null, S_getRoleName)

P_hasRole_evaluate(role) ==
    /\ variant = "persisted"
    /\ Evaluate("hasRole", role, P_hasRole(role))

P_hasPermission_evaluate(permission) ==
    /\ variant = "persisted"
    /\ Evaluate("hasPermission", permission, P_hasPermission(permission))

P_isSuperAdmin_evaluate ==
    /\ variant = "persisted"
    /\ Evaluate("isSuperAdmin", Null, P_isSuperAdmin)

\* a render of the numeric guard around some children
S_ProtectedRoute_render(requiredRole) ==
    /\ variant = "session"
    /\ Evaluate("ProtectedRoute",
                [requiredRole |-> requiredRole, requiredPermission |-> NoProp],
                S_ProtectedRoute(requiredRole))

\* a render of the string guard around some children
P_ProtectedRoute_render(requiredRole, requiredPermission) ==
    /\ variant = "persisted"
    /\ Evaluate("ProtectedRoute",
                [requiredRole |-> requiredRole, requiredPermission |-> requiredPermission],
                P_ProtectedRoute(requiredRole, requiredPermission))

OptionalProps(values) == {NoProp} \cup {Prop(v) : v \in values}

NextAccess ==
    \/ \E role \in NumericRoles : S_hasRole_evaluate(role)
    \/ S_isSuperAdmin_evaluate
    \/ S_getRoleName_evaluate
    \/ \E requiredRole \in OptionalProps(NumericRoles) : S_ProtectedRoute_render(requiredRole)
    \/ \E role \in StringRoles : P_hasRole_evaluate(role)
    \/ \E permission \in Permissions : P_hasPermission_evaluate(permission)
    \/ P_isSuperAdmin_evaluate
    \/ \E requiredRole \in OptionalProps(StringRoles),
          requiredPermission \in OptionalProps(Permissions) :
              P_ProtectedRoute_render(requiredRole, requiredPermission)

SpecAccess == InitAccess /\ [][NextAccess]_vars

\* C16: on an empty Session every role check, the super-admin check and
\* every permission check return false, and the role name is "Guest"; each
\* call returns a value (none ends in an exception).
C16_EmptySessionGrantsNothing ==
    (admin = NullAdmin /\ evaluated.fn # "none") =>
        /\ evaluated.fn \in {"hasRole", "isSuperAdmin", "hasPermission"}
              => evaluated.result = FALSE
        /\ evaluated.fn = "getRoleName" => evaluated.result = "Guest"

\* the role name was asked of an empty Session
C16_Witness ==
    /\ admin = NullAdmin
    /\ token = Null
    /\ evaluated.fn = "getRoleName"
    /\ evaluated.result = "Guest"

\* C17: with an admin in the Session, hasRole(required) returns true exactly
\* when the admin's role is the required value itself: the same number, or
\* the same string, letter case included.
C17_HasRoleIsExactMatch ==
    (evaluated.fn = "hasRole" /\ ~FalsyAdmin(admin)) =>
        (evaluated.result <=> (admin.role = evaluated.arg))

\* a role that differs from the admin's in letter case only was refused
C17_Witness ==
    /\ variant = "persisted"
    /\ ~FalsyAdmin(admin)
    /\ admin.role = "admin"
    /\ evaluated = [fn |-> "hasRole", arg |-> "Admin", result |-> FALSE]

\* the admin of the Session has the super-admin role of its provider
HasSuperAdminRole ==
    /\ ~FalsyAdmin(admin)
    /\ IF variant = "session"
       THEN admin.role = 0
       ELSE admin.role \in {"super_admin", "superadmin"}

\* C18: isSuperAdmin() returns true exactly when the Session has an admin
\* whose role is the super-admin role (0; "super_admin" or "superadmin"); the
\* Session a login with a role-0 admin leaves is authenticated and a super
\* admin's.
C18_SuperAdminIffDesignatedRole ==
    /\ evaluated.fn = "isSuperAdmin" => (evaluated.result <=> HasSuperAdminRole)
    /\ (variant = "session" /\ token \in Tokens /\ admin \in NumericAdmins /\ admin.role = 0)
          => (isAuthenticated /\ S_isSuperAdmin)

\* the second spelling was recognised
C18_Witness ==
    /\ variant = "persisted"
    /\ ~FalsyAdmin(admin)
    /\ admin.role = "superadmin"
    /\ evaluated.fn = "isSuperAdmin"
    /\ evaluated.result = TRUE

\* the entries of the admin's permission list
PermissionsOf(a) == {a.permissions[i] : i \in 1..Len(a.permissions)}

\* C19: hasPermission(p) returns true exactly when the admin has a permission
\* list and p is in it; for an admin without a list it returns false.
C19_PermissionIffListed ==
    (evaluated.fn = "hasPermission" /\ ~FalsyAdmin(admin)) =>
        /\ evaluated.result <=> (admin.hasPermissions /\ evaluated.arg \in PermissionsOf(admin))
        /\ ~admin.hasPermissions => evaluated.result = FALSE

\* a permission was asked of an admin without a permission list
C19_Witness ==
    /\ evaluated.fn = "hasPermission"
    /\ ~FalsyAdmin(admin)
    /\ ~admin.hasPermissions
    /\ evaluated.result = FALSE

\* the views that refuse an authenticated Session
ForbiddenViews == {"access-denied", "insufficient-permissions"}

\* C20: when a route names a required role or a required permission, and an
\* authenticated Session (loading flag down) fails the matching check and is
\* no super admin's, the guard returns a refusal and not the children.
C20_UnmetRequirementIsForbidden ==
    (evaluated.fn = "ProtectedRoute" /\ ~isLoading /\ isAuthenticated) =>
        LET requiredRole == evaluated.arg.requiredRole
            requiredPermission == evaluated.arg.requiredPermission
        IN  IF variant = "session"
            THEN (requiredRole.given /\ ~S_hasRole(requiredRole.value) /\ ~S_isSuperAdmin)
                     => evaluated.result \in ForbiddenViews
            ELSE /\ (requiredRole.given /\ ~P_hasRole(requiredRole.value) /\ ~P_isSuperAdmin)
                     => evaluated.result \in ForbiddenViews
                 /\ (requiredPermission.given /\ ~P_hasPermission(requiredPermission.value)
                         /\ ~P_isSuperAdmin)
                     => evaluated.result \in ForbiddenViews

(***************************************************************************)
(* The guards over the provider's reachable states                         *)
(***************************************************************************)
\* what the guard of the provider in use returns for each way of using it
Views ==
    IF variant = "session"
    THEN {S_ProtectedRoute(requiredRole) : requiredRole \in OptionalProps(NumericRoles)}
    ELSE {P_ProtectedRoute(requiredRole, requiredPermission) :
             requiredRole \in OptionalProps(StringRoles),
             requiredPermission \in OptionalProps(Permissions)}

\* the startup validation settles without establishing a Session
ValidationFails ==
    /\ pcValidate = "awaiting"
    /\ pcValidate' = "done"
    /\ admin' = NullAdmin

\* C21: the guard returns the children only when the loading flag is down
\* and the Session is authenticated; with the flag down and the Session not
\* authenticated it returns the login page, whatever the route requires.  So
\* it does right after logout() and after a startup validation that failed.
C21_ContentOnlyWhenAuthenticated ==
    /\ []( /\ "children" \in Views => (~isLoading /\ isAuthenticated)
           /\ (~isLoading /\ ~isAuthenticated) => Views = {"login"} )
    /\ [][ ((S_logout \/ \E issued \in BOOLEAN : P_logout(issued)) \/ ValidationFails)
           => Views' = {"login"}
         ]_vars

\* an admin was logged in and has logged out: the guard shows the login page
C21_Witness ==
    /\ \E c \in Slots : calls[c].pc = "resolved"
    /\ ~isLoading
    /\ admin = NullAdmin
    /\ token = Null
    /\ Views = {"login"}

\* C22: a call of hasRole, isSuperAdmin, hasPermission or getRoleName, and a
\* render of a guard, whatever it returns, leaves admin, token, the loading
\* flag, the error and both storage entries as they were, and starts no
\* login, validation or logout request.
C22_EvaluationChangesNothing ==
    [][ evaluated' # evaluated
        => UNCHANGED <<admin, token, isLoading, error, localStorage,
                       calls, pcValidate, valToken, logoutCalls>>
      ]_vars

\* a guard has refused an authenticated Session, which is still there
C22_Witness ==
    /\ evaluated.fn = "ProtectedRoute"
    /\ evaluated.result \in ForbiddenViews
    /\ isAuthenticated
    /\ ~isLoading
    /\ error = Null
    /\ variant = "persisted" => localStorage.authToken \in Tokens

\* a login() or the startup validation is waiting for the identity service
CallOutstanding == (\E c \in Slots : InFlight(c)) \/ pcValidate = "awaiting"

\* C25: while a login() or the startup validation waits for its answer the
\* loading flag is up, whatever other call started or completed meanwhile.
C25_LoadingWhileOutstanding == CallOutstanding => isLoading

(***************************************************************************)
(* Startup under fairness: React runs the mount effect of the provider,    *)
(* and the validation request, once sent, is answered or fails.            *)
(***************************************************************************)
FairSpec ==
    /\ Spec
    /\ WF_vars(S_mount)
    /\ WF_vars(P_validateExistingToken_call)
    /\ WF_vars(\E r \in ValidateResults : P_validateExistingToken_afterValidate(r))

\* startup is over: the loading flag is down; a Session without admin shows
\* the login page; the session-only provider is empty and has sent nothing
StartupOver ==
    /\ pcValidate = "done"
    /\ ~isLoading
    /\ admin = NullAdmin => Views = {"login"}
    /\ variant = "session" =>
          /\ Session = EmptySession
          /\ \A c \in Slots : calls[c] = IdleCall
          /\ logoutCalls = 0
          /\ accepted = {}

\* C26: the provider starts with the loading flag up, and startup always
\* comes to an end with the flag down: with the login page when no Session
\* was established, and in the session-only provider with an empty Session
\* and no request sent.
C26_StartupLeavesLoading ==
    /\ [](pcValidate = "init" => isLoading)
    /\ (pcValidate = "init") ~> StartupOver

\* the stored token was refused and startup ended on the login page
C26_Witness ==
    /\ variant = "persisted"
    /\ valToken \in Tokens
    /\ StartupOver
    /\ admin = NullAdmin
    /\ \A c \in Slots : calls[c] = IdleCall

\* C27: when the startup validation settles, with either outcome, after a
\* login() has succeeded (the admin in the Session is then the login's, as
\* the validation has set none yet), the admin and both storage entries stay
\* what the login made them.
C27_ValidationKeepsLoginSession ==
    [][ ( /\ variant = "persisted"
          /\ pcValidate = "awaiting"
          /\ pcValidate' = "done"
          /\ admin # NullAdmin
          /\ \E c \in Slots : calls[c].pc = "resolved" )
        => (admin' = admin /\ localStorage' = localStorage)
      ]_vars

\* C28: in the persisted provider, whenever the Session has an admin, the
\* admin entry of storage is the JSON text of that very admin and the token
\* entry holds a token, however logins, logouts and the startup validation
\* were interleaved.
C28_StoredAdminIsSessionAdmin ==
    (variant = "persisted" /\ admin # NullAdmin) =>
        /\ localStorage.adminData = JSON_stringify(admin)
        /\ JSON_parse(localStorage.adminData) = [threw |-> FALSE, value |-> admin]
        /\ ~FalsyString(localStorage.authToken)

\* two logins overlapped and both succeeded, after a validated startup
C28_Witness ==
    /\ variant = "persisted"
    /\ pcValidate = "done"
    /\ valToken \in Tokens
    /\ \A c \in Slots : calls[c].pc = "resolved"
    /\ admin \in StringAdmins
    /\ localStorage.adminData = JSON_stringify(admin)

(***************************************************************************)
(* The Login component over either provider.  Here login() is called by    *)
(* the form only; logout(), clearError() and the startup of the provider   *)
(* run as before.  loginForm.call is the login() the submit handler is     *)
(* awaiting (0: none), loginForm.caught the message of the Error its catch *)
(* block last received.                                                    *)
(***************************************************************************)
\* a submit handler that tests the provider's loading flag only
Login_handleSubmit_ignoresIsSubmitting(c, filled) ==
    /\ Mounted
    /\ FreeSlot(c)
    /\ ~isLoading
    /\ filled
    /\ loginForm' = [loginForm EXCEPT !.isSubmitting = TRUE, !.call = c]
    /\ (S_login_call_step(c) \/ P_login_call_step(c))

\* handleSubmit: up to the await inside login().  With isSubmitting or
\* isLoading up, or with an empty field, it returns at once.
Login_handleSubmit(c, filled) ==
    /\ Mounted
    /\ FreeSlot(c)
    /\ IF loginForm.isSubmitting \/ isLoading \/ ~filled
       THEN UNCHANGED vars
       ELSE /\ loginForm' = [loginForm EXCEPT !.isSubmitting = TRUE, !.call = c]
            /\ (S_login_call_step(c) \/ P_login_call_step(c))

\* handleSubmit: after the await (catch, finally), when login() c has settled
Login_afterAwait(c, thrown) ==
    loginForm' =
        IF loginForm.call = c /\ calls'[c].pc = "rejected"
        THEN [isSubmitting |-> FALSE, call |-> 0, caught |-> thrown]
        ELSE IF loginForm.call = c /\ calls'[c].pc = "resolved"
        THEN [loginForm EXCEPT !.isSubmitting = FALSE, !.call = 0]
        ELSE loginForm

Login_S_afterLogin(c, o) ==
    /\ S_login_afterLogin_step(c, o)
    /\ Login_afterAwait(c, authApiLogin(o).message)

Login_S_afterProfile(c, o) ==
    /\ S_login_afterProfile_step(c, o)
    /\ Login_afterAwait(c, S_login_afterProfile_thrown(o))

Login_P_afterLogin(c, response) ==
    /\ P_login_afterLogin_step(c, response)
    /\ Login_afterAwait(c, P_login_thrown(response))

NextLogin ==
    \/ S_mount
    \/ \E c \in Slots, filled \in BOOLEAN : Login_handleSubmit(c, filled)
    \/ \E c \in Slots, o \in LoginFetchOutcomes : Login_S_afterLogin(c, o)
    \/ \E c \in Slots, o \in ProfileFetchOutcomes : Login_S_afterProfile(c, o)
    \/ S_logout
    \/ clearError
    \/ P_validateExistingToken_call
    \/ \E r \in ValidateResults : P_validateExistingToken_afterValidate(r)
    \/ \E c \in Slots, r \in LoginResults : Login_P_afterLogin(c, r)
    \/ \E issued \in BOOLEAN : P_logout(issued)
    \/ P_logout_settled

SpecLogin == Init /\ [][NextLogin]_vars

\* C23: when the identity service answers a login with a non-2xx status and
\* a message m in the body, login() rejects, the Error its caller catches has
\* the message m or "Login failed: " followed by m, and the Session has no
\* admin, no token and nothing in storage.
C23_RejectionCarriesMessage ==
    [][ \A c \in Slots :
          (InFlight(c) /\ calls'[c] # calls[c] /\ loginForm.call = c) =>
            /\ \A o \in LoginFetchOutcomes :
                 ( /\ o.kind = "http" /\ ~o.ok /\ ~FalsyString(o.message)
                   /\ Login_S_afterLogin(c, o) )
                 => /\ calls'[c].pc = "rejected"
                    /\ loginForm'.caught \in {o.message, "Login failed: " \o o.message}
                    /\ admin' = NullAdmin /\ token' = Null
            /\ \A r \in LoginResults :
                 ( /\ ~r.success /\ ~FalsyString(r.message)
                   /\ Login_P_afterLogin(c, r) )
                 => /\ calls'[c].pc = "rejected"
                    /\ loginForm'.caught = r.message
                    /\ admin' = NullAdmin /\ localStorage' = EmptyStorage
      ]_vars

\* the form has caught the wrapped message of a refused login
C23_Witness ==
    /\ variant = "session"
    /\ loginForm = [isSubmitting |-> FALSE, call |-> 0,
                    caught |-> "Login failed: Invalid credentials"]
    /\ calls[1].pc = "rejected"
    /\ admin = NullAdmin
    /\ token = Null

\* a login() starts
LoginStarts(c) == ~InFlight(c) /\ calls'[c].pc = "awaitLogin"

\* C24: the form calls login() only when no login() it called earlier is
\* still waiting for its answer; from its submit to that answer isSubmitting
\* is up, and a submit with isSubmitting or isLoading up starts nothing.
C24_FormSerializesLogins ==
    /\ []( (\E c \in Slots : InFlight(c)) => loginForm.isSubmitting )
    /\ [][ \A c \in Slots :
             LoginStarts(c) =>
               /\ \A d \in Slots : ~InFlight(d)
               /\ ~loginForm.isSubmitting /\ ~isLoading
               /\ loginForm'.isSubmitting
         ]_vars

\* the form's login() is unanswered and the loading flag is down (a logout()
\* lowered it): isSubmitting alone holds back the next submit
C24_Witness ==
    /\ loginForm.isSubmitting
    /\ InFlight(loginForm.call)
    /\ ~isLoading
    /\ ENABLED (\E c \in Slots : Login_handleSubmit(c, TRUE))

(***************************************************************************)
(* The management views over the session-only provider.  Each handler is a *)
(* closure of the render it was created in: the token it tests and sends   *)
(* is the token of that render, and so is the loadUsers it calls after its *)
(* await.  mgmt.users and mgmt.admins hold the handler running in each     *)
(* view with the token of its closure; mgmt.sent counts the requests sent  *)
(* and mgmt.last is the last one, with the token it carried.               *)
(***************************************************************************)
MaxRequests == 3

exceptMgmt == <<storageOp, evaluated, loginForm, health>>

InitViews ==
    /\ variant = "session"
    /\ isLoading = FALSE
    /\ error = Null
    /\ localStorage = EmptyStorage
    /\ calls = [c \in Slots |-> IdleCall]
    /\ pcValidate = "done"
    /\ valToken = Null
    /\ logoutCalls = 0
    /\ storageOp = NoStorageOp
    /\ evaluated = NothingEvaluated
    /\ InitComponents
    /\ \/ admin = NullAdmin /\ token = Null /\ accepted = {}
       \/ /\ admin \in NumericAdmins
          /\ token \in Tokens
          /\ accepted = {token}

\* userApiService / authApiService is called with tok
SendRequest(m, api, tok) ==
    [m EXCEPT !.sent = m.sent + 1, !.last = [api |-> api, token |-> tok]]

\* loadUsers(), called by the mount effect or a filter change
U_loadUsers ==
    /\ mgmt.users.pc = "idle"
    /\ mgmt.sent < MaxRequests
    /\ IF FalsyString(token)
       THEN UNCHANGED mgmt
       ELSE mgmt' = [SendRequest(mgmt, "getAllUsers", token)
                       EXCEPT !.users = [pc |-> "loadUsers", token |-> token]]
    /\ UNCHANGED <<providerVars, localStorage, exceptMgmt>>

\* handleDeactivateUser() / handleReactivateUser(): up to the await
U_handleUserAction(api, selectedUser) ==
    /\ mgmt.users.pc = "idle"
    /\ mgmt.sent < MaxRequests
    /\ IF FalsyString(token) \/ ~selectedUser
       THEN UNCHANGED mgmt
       ELSE mgmt' = [SendRequest(mgmt, api, token)
                       EXCEPT !.users = [pc |-> api, token |-> token]]
    /\ UNCHANGED <<providerVars, localStorage, exceptMgmt>>

\* `await loadUsers()` inside a handler: the loadUsers of the handler's render
U_reload(m) ==
    IF FalsyString(m.users.token)
    THEN [m EXCEPT !.users = [pc |-> "idle", token |-> Null]]
    ELSE [SendRequest(m, "getAllUsers", m.users.token) EXCEPT !.users.pc = "loadUsers"]

\* handleDeactivateUser() / handleReactivateUser(): the request settles
U_afterUserAction(ok) ==
    /\ mgmt.users.pc \in {"deactivateUser", "reactivateUser"}
    /\ mgmt.sent < MaxRequests
    /\ mgmt' = IF ok THEN U_reload(mgmt)
               ELSE [mgmt EXCEPT !.users = [pc |-> "idle", token |-> Null]]
    /\ UNCHANGED <<providerVars, localStorage, exceptMgmt>>

\* loadUsers(): the request settles
U_afterLoadUsers ==
    /\ mgmt.users.pc = "loadUsers"
    /\ mgmt' = [mgmt EXCEPT !.users = [pc |-> "idle", token |-> Null]]
    /\ UNCHANGED <<providerVars, localStorage, exceptMgmt>>

\* loadAdmins(), called by the effect when isSuperAdmin() && token
A_loadAdmins ==
    /\ mgmt.admins.pc = "idle"
    /\ mgmt.sent < MaxRequests
    /\ S_isSuperAdmin
    /\ IF FalsyString(token)
       THEN UNCHANGED mgmt
       ELSE mgmt' = [SendRequest(mgmt, "getAllAdmins", token)
                       EXCEPT !.admins = [pc |-> "loadAdmins", token |-> token]]
    /\ UNCHANGED <<providerVars, localStorage, exceptMgmt>>

\* handleCreateAdmin(): up to the await
A_handleCreateAdmin ==
    /\ mgmt.admins.pc = "idle"
    /\ mgmt.sent < MaxRequests
    /\ IF FalsyString(token)
       THEN UNCHANGED mgmt
       ELSE mgmt' = [SendRequest(mgmt, "createAdmin", token)
                       EXCEPT !.admins = [pc |-> "createAdmin", token |-> token]]
    /\ UNCHANGED <<providerVars, localStorage, exceptMgmt>>

\* loadAdmins() / handleCreateAdmin(): the request settles
A_afterRequest ==
    /\ mgmt.admins.pc # "idle"
    /\ mgmt' = [mgmt EXCEPT !.admins = [pc |-> "idle", token |-> Null]]
    /\ UNCHANGED <<providerVars, localStorage, exceptMgmt>>

NextViews ==
    \/ S_logout
    \/ U_loadUsers
    \/ \E api \in {"deactivateUser", "reactivateUser"}, selectedUser \in BOOLEAN :
          U_handleUserAction(api, selectedUser)
    \/ \E ok \in BOOLEAN : U_afterUserAction(ok)
    \/ U_afterLoadUsers
    \/ A_loadAdmins
    \/ A_handleCreateAdmin
    \/ A_afterRequest

SpecViews == InitViews /\ [][NextViews]_vars

\* C29: the management views send a request only while the Session has a
\* token, and the request carries that token: with the token null (as after
\* logout) no handler sends anything.
C29_NoRequestWithoutToken ==
    [][ mgmt'.sent > mgmt.sent
        => (~FalsyString(token) /\ mgmt'.last.token = token)
      ]_vars

(***************************************************************************)
(* The health chart.  health.chartData is the number of points of the      *)
(* chart, health.initial the position of the fetch of the mount effect and *)
(* health.polls the number of polls sent by the interval and not yet       *)
(* answered.  A poll is answered by a success or a failure, in any order.  *)
(***************************************************************************)
MaxPolls == 2

\* prevData.slice(-29)
KeptPoints == 29

exceptHealth == <<storageOp, evaluated, loginForm, mgmt>>

InitHealth ==
    /\ InitViews
    /\ token # Null

SliceKept(n) == IF n > KeptPoints THEN KeptPoints ELSE n

\* the mount effect: fetchData() up to the await
H_fetchData_call ==
    /\ health.initial = "init"
    /\ health' = [health EXCEPT !.initial = "awaiting"]
    /\ UNCHANGED <<providerVars, localStorage, exceptHealth>>

\* fetchData(): try body after the await, or catch; then finally
H_fetchData_settled(ok) ==
    /\ health.initial = "awaiting"
    /\ health' = IF ok
                 THEN [health EXCEPT !.initial = "done", !.systemData = "data",
                                     !.apiConnected = TRUE, !.chartData = 1,
                                     !.error = Null, !.loading = FALSE]
                 ELSE [health EXCEPT !.initial = "done", !.systemData = Null,
                                     !.apiConnected = FALSE, !.chartData = 0,
                                     !.error = "Failed to connect to API",
                                     !.loading = FALSE]
    /\ UNCHANGED <<providerVars, localStorage, exceptHealth>>

\* the interval of the polling effect fires: fetchNewDataPoint() up to the await
H_fetchNewDataPoint_call ==
    /\ health.apiConnected
    /\ health.polls < MaxPolls
    /\ health' = [health EXCEPT !.polls = health.polls + 1]
    /\ UNCHANGED <<providerVars, localStorage, exceptHealth>>

\* fetchNewDataPoint(): try body after the await
H_poll_try(h) ==
    [h EXCEPT !.polls = h.polls - 1, !.error = Null,
              !.chartData = SliceKept(h.chartData) + 1, !.systemData = "data"]

\* fetchNewDataPoint(): catch
H_poll_catch(h) ==
    [h EXCEPT !.polls = h.polls - 1, !.error = "API connection lost",
              !.apiConnected = FALSE, !.systemData = Null, !.chartData = 0]

\* a poll is answered
H_fetchNewDataPoint_settled(ok) ==
    /\ health.polls > 0
    /\ health' = IF ok THEN H_poll_try(health) ELSE H_poll_catch(health)
    /\ UNCHANGED <<providerVars, localStorage, exceptHealth>>

NextHealth ==
    \/ H_fetchData_call
    \/ \E ok \in BOOLEAN : H_fetchData_settled(ok)
    \/ H_fetchNewDataPoint_call
    \/ \E ok \in BOOLEAN : H_fetchNewDataPoint_settled(ok)

SpecHealth == InitHealth /\ [][NextHealth]_vars

\* C30: whenever the chart's apiConnected is false, its systemData is null
\* and its chartData is empty, whatever the order in which the answers of
\* overlapping polls arrive.
C30_DisconnectedChartIsEmpty ==
    ~health.apiConnected => (health.systemData = Null /\ health.chartData = 0)

====
